---- MODULE Spec2Model ----
(***************************************************************************)
(* A model of simple-possibilities.py: the tile board (GameState), the     *)
(* enumeration of the successors of a board for a roll (get_next_states    *)
(* and its nested recur_helper), the dice outcomes (dice_rolls), the       *)
(* result pair (AllGamesResult) and the recursive search (find_all_games). *)
(*                                                                         *)
(* GameState objects live in a heap (a sequence of boards, an object is    *)
(* its index), because the code passes them by reference and copies them   *)
(* with deepcopy: whether get_next_states writes to its receiver is then   *)
(* a property of the model and not of the notation.                        *)
(*                                                                         *)
(* The search tree of the all-false board is far too large to enumerate,   *)
(* so a behaviour of the model is one play-through from the all-false      *)
(* board (a path of the recursion, chosen roll by roll and successor by    *)
(* successor), followed, once few flags are left, by the search itself     *)
(* on the board reached, step by step with its call stack.                 *)
(***************************************************************************)
EXTENDS Integers, Sequences, FiniteSets, TLC

(* Program constants. *)
NumTiles == 12
NumSides == 6

(* Bounds of the exploration. *)
MaxUnset == 2
MaxSteps == 400

Tiles == 1..NumTiles

(***************************************************************************)
(* GameState: the two rows of flags.  Row index v here is index v - 1 in   *)
(* the Python lists.                                                       *)
(***************************************************************************)
GameState == [front_row |-> [v \in Tiles |-> FALSE], back_row |-> [v \in Tiles |-> FALSE]]

(* A copy that starts from a fresh board instead of the rows of state. *)
deepcopy_fresh(h, state) == [heap |-> Append(h, GameState), obj |-> Len(h) + 1]

(* No copy: new_state is state itself. *)
deepcopy_alias(h, state) == [heap |-> h, obj |-> state]

(* deepcopy(state): a new object with the same rows, at the next address. *)
deepcopy(h, state) == [heap |-> Append(h, h[state]), obj |-> Len(h) + 1]

(* The flip with the two rows exchanged. *)
flip_back_first(h, new_state, val, front_flipped) ==
    IF front_flipped
    THEN [h EXCEPT ![new_state].front_row[val] = TRUE]
    ELSE [h EXCEPT ![new_state].back_row[val] = TRUE]

(* The flip that forgets the back row. *)
flip_front_only(h, new_state, val, front_flipped) ==
    [h EXCEPT ![new_state].front_row[val] = TRUE]

(* Lines 37-40: the flip of tile val in new_state. *)
flip(h, new_state, val, front_flipped) ==
    IF front_flipped
    THEN [h EXCEPT ![new_state].back_row[val] = TRUE]
    ELSE [h EXCEPT ![new_state].front_row[val] = TRUE]

(***************************************************************************)
(* recur_helper(roll_remaining, state), with the heap and the result list  *)
(* of the enclosing get_next_states threaded through.  for_val is the for  *)
(* loop of lines 29-41 from tile val on: the flags tested are read from    *)
(* the rows of self at the time of the iteration.                          *)
(***************************************************************************)
RECURSIVE recur_helper(_, _, _, _, _)
RECURSIVE for_val(_, _, _, _, _, _)
(* A recur_helper that drops a board already in the result. *)
recur_helper_dedup(h, result, self, roll_remaining, state) ==
    IF roll_remaining = 0
    THEN [heap |-> h,
          result |-> IF \E i \in 1..Len(result) : h[result[i]] = h[state]
                     THEN result
                     ELSE Append(result, state)]
    ELSE for_val(h, result, self, roll_remaining, state, 1)

recur_helper(h, result, self, roll_remaining, state) ==
    IF roll_remaining = 0
    THEN [heap |-> h, result |-> Append(result, state)]
    ELSE for_val(h, result, self, roll_remaining, state, 1)

(* The loop that tests the flags of the board being extended. *)
for_val_own_rows(h, result, self, roll_remaining, state, val) ==
    IF val > NumTiles
    THEN [heap |-> h, result |-> result]
    ELSE LET front_flipped == h[state].front_row[val]
             back_flipped == h[state].back_row[val]
             new_rem == roll_remaining - val
         IN  IF front_flipped /\ back_flipped
             THEN for_val(h, result, self, roll_remaining, state, val + 1)
             ELSE IF new_rem >= 0
             THEN LET c == deepcopy(h, state)
                      r == recur_helper(flip(c.heap, c.obj, val, front_flipped),
                                        result, self, new_rem, c.obj)
                  IN  for_val(r.heap, r.result, self, roll_remaining, state, val + 1)
             ELSE for_val(h, result, self, roll_remaining, state, val + 1)

for_val(h, result, self, roll_remaining, state, val) ==
    IF val > NumTiles
    THEN [heap |-> h, result |-> result]
    ELSE LET front_flipped == h[self].front_row[val]
             back_flipped == h[self].back_row[val]
             new_rem == roll_remaining - val
         IN  IF front_flipped /\ back_flipped
             THEN for_val(h, result, self, roll_remaining, state, val + 1)
             ELSE IF new_rem >= 0
             THEN LET c == deepcopy(h, state)
                      r == recur_helper(flip(c.heap, c.obj, val, front_flipped),
                                        result, self, new_rem, c.obj)
                  IN  for_val(r.heap, r.result, self, roll_remaining, state, val + 1)
             ELSE for_val(h, result, self, roll_remaining, state, val + 1)

(* get_next_states(roll) on the object self: the heap afterwards (with the *)
(* intermediate copies still in it) and the list of the objects returned.  *)
get_next_states(h, self, roll) == recur_helper(h, <<>>, self, roll, self)

(* is_won that looks at the front row only. *)
is_won_front(b) == \A v \in Tiles : b.front_row[v]

(* is_won: all flags of both rows are set. *)
is_won(b) == (\A v \in Tiles : b.front_row[v]) /\ (\A v \in Tiles : b.back_row[v])

(* The distinct totals 2 .. 2 * num_sides, once each. *)
dice_rolls_distinct(num_sides) == [i \in 1..(2 * num_sides - 1) |-> i + 1]

(* dice_rolls(num_sides): the totals a + b in the order of itertools.product. *)
dice_rolls(num_sides) ==
    [i \in 1..(num_sides * num_sides) |->
        (((i - 1) \div num_sides) + 1) + (((i - 1) % num_sides) + 1)]

DiceRolls == dice_rolls(NumSides)

(* The totals dice_rolls() yields. *)
Totals == {DiceRolls[k] : k \in 1..Len(DiceRolls)}


(* AllGamesResult and its __add__. *)
AllGamesResult(num_won, num_lost) == [num_won |-> num_won, num_lost |-> num_lost]

(* An __add__ that takes the losses of the right operand from its wins. *)
add_wins_twice(a, b) == AllGamesResult(a.num_won + b.num_won, a.num_lost + b.num_won)

(* An __add__ that keeps the losses of its right operand only. *)
add_right_losses(a, b) == AllGamesResult(a.num_won + b.num_won, b.num_lost)

add(a, b) == AllGamesResult(a.num_won + b.num_won, a.num_lost + b.num_lost)

(***************************************************************************)
(* Storage.  After get_next_states returns, the copies made on the way     *)
(* that are not in the returned list are garbage; Collect drops them and   *)
(* moves the returned objects down, keeping their order and their          *)
(* identity (two entries of the list that are one object stay one          *)
(* object).  base is the size of the heap before the call.                 *)
(***************************************************************************)
RECURSIVE Position(_, _, _, _)
Position(keep, x, lo, hi) ==
    LET mid == (lo + hi) \div 2
    IN  IF keep[mid] = x THEN mid
        ELSE IF keep[mid] < x THEN Position(keep, x, mid + 1, hi)
        ELSE Position(keep, x, lo, mid - 1)

Collect(h, base, result) ==
    LET returned == {result[i] : i \in 1..Len(result)}
        keep == SelectSeq([i \in 1..Len(h) |-> i], LAMBDA i : i <= base \/ i \in returned)
    IN  [heap |-> [i \in 1..Len(keep) |-> h[keep[i]]],
         result |-> [i \in 1..Len(result) |-> Position(keep, result[i], 1, Len(keep))]]

(* state.get_next_states(roll) as the caller sees it. *)
next_states_of(h, state, roll) ==
    LET e == get_next_states(h, state, roll)
    IN  Collect(e.heap, Len(h), e.result)

(* Flags of a board. *)
SetFlags(b) == Cardinality({v \in Tiles : b.front_row[v]}) + Cardinality({v \in Tiles : b.back_row[v]})

UnsetFlags(b) == 2 * NumTiles - SetFlags(b)

(* The play-throughs followed: below the highest tile touched so far, at   *)
(* most MaxUnset flags are unset.                                          *)
InBounds(b) ==
    \A t \in Tiles :
        b.front_row[t] =>
            Cardinality({v \in 1..(t - 1) : ~b.front_row[v]})
              + Cardinality({v \in 1..(t - 1) : ~b.back_row[v]}) <= MaxUnset

(***************************************************************************)
(* State.                                                                  *)
(*   heap         the GameState objects; heap[1] is the default argument   *)
(*                of find_all_games, made once when the function is        *)
(*                defined                                                  *)
(*   cur          the state argument of the call of find_all_games the     *)
(*                play-through has reached                                 *)
(*   roll         the total last rolled in that call (0: none yet)         *)
(*   next_states  the list get_next_states returned for it                 *)
(*   pc           "roll", "choose": following a play-through;              *)
(*                "search": running find_all_games on cur; "done"          *)
(*   stack        the frames of find_all_games below the call on cur       *)
(*   ret          the value the call on cur returned                       *)
(*   steps        steps of the search taken so far                         *)
(***************************************************************************)
VARIABLES heap, cur, roll, next_states, pc, stack, ret, steps

vars == <<heap, cur, roll, next_states, pc, stack, ret, steps>>

DefaultState == 1

Init ==
    /\ heap = <<GameState>>
    /\ cur = DefaultState
    /\ roll = 0
    /\ next_states = <<>>
    /\ pc = "roll"
    /\ stack = <<>>
    /\ ret = AllGamesResult(0, 0)
    /\ steps = 0

(* Lines 92-98 in the call on cur: it is not won, one of the 36 outcomes   *)
(* is rolled and expanded.                                                 *)
Roll(r) ==
    /\ pc = "roll"
    /\ ~is_won(heap[cur])
    /\ LET e == next_states_of(heap, cur, r)
       IN  /\ heap' = e.heap
           /\ next_states' = e.result
    /\ roll' = r
    /\ pc' = "choose"
    /\ UNCHANGED <<cur, stack, ret, steps>>

(* Lines 104-105: the recursive call on the j-th entry of next_states.     *)
(* The frames above it and the other entries leave the model.              *)
Choose(j) ==
    /\ pc = "choose"
    /\ j \in 1..Len(next_states)
    /\ InBounds(heap[next_states[j]])
    /\ heap' = <<heap[DefaultState], heap[next_states[j]]>>
    /\ cur' = 2
    /\ roll' = 0
    /\ next_states' = <<>>
    /\ pc' = "roll"
    /\ UNCHANGED <<stack, ret, steps>>

(***************************************************************************)
(* The search on cur.  A frame of find_all_games:                          *)
(*   state, roll_idx (outcomes of dice_rolls() consumed), next_states,     *)
(*   next_idx (entries of next_states consumed), result, pc, and base,     *)
(*   the size of the heap when the frame last called get_next_states.      *)
(***************************************************************************)
Frame(state, base) ==
    [state |-> state, roll_idx |-> 0, next_states |-> <<>>, next_idx |-> 0,
     result |-> AllGamesResult(0, 0), pc |-> "is_won", base |-> base]

Top == stack[Len(stack)]

SetTop(f) == [stack EXCEPT ![Len(stack)] = f]

(* The call find_all_games(cur) the play-through has reached is run in full. *)
Search ==
    /\ pc = "roll"
    /\ UnsetFlags(heap[cur]) <= MaxUnset
    /\ pc' = "search"
    /\ stack' = <<Frame(cur, Len(heap))>>
    /\ UNCHANGED <<heap, cur, roll, next_states, ret, steps>>

(* Lines 92-95 with the arguments of line 93 exchanged. *)
IsWon_swapped ==
    /\ pc = "search" /\ steps < MaxSteps
    /\ Top.pc = "is_won"
    /\ stack' = SetTop(IF is_won(heap[Top.state])
                       THEN [Top EXCEPT !.result = AllGamesResult(0, 1), !.pc = "return"]
                       ELSE [Top EXCEPT !.result = AllGamesResult(0, 0), !.pc = "for_roll"])
    /\ steps' = steps + 1
    /\ UNCHANGED <<heap, cur, roll, next_states, pc, ret>>

(* Lines 92-95. *)
IsWon ==
    /\ pc = "search" /\ steps < MaxSteps
    /\ Top.pc = "is_won"
    /\ stack' = SetTop(IF is_won(heap[Top.state])
                       THEN [Top EXCEPT !.result = AllGamesResult(1, 0), !.pc = "return"]
                       ELSE [Top EXCEPT !.result = AllGamesResult(0, 0), !.pc = "for_roll"])
    /\ steps' = steps + 1
    /\ UNCHANGED <<heap, cur, roll, next_states, pc, ret>>

(* Lines 97-102 with the loss added for every outcome. *)
ForRoll_always_lost ==
    /\ pc = "search" /\ steps < MaxSteps
    /\ Top.pc = "for_roll"
    /\ IF Top.roll_idx = Len(DiceRolls)
       THEN /\ stack' = SetTop([Top EXCEPT !.pc = "return"])
            /\ heap' = heap
       ELSE LET e == next_states_of(heap, Top.state, DiceRolls[Top.roll_idx + 1])
            IN  /\ heap' = e.heap
                /\ stack' = SetTop([Top EXCEPT
                        !.roll_idx = @ + 1,
                        !.next_states = e.result,
                        !.next_idx = 0,
                        !.base = Len(heap),
                        !.result = add(@, AllGamesResult(0, 1)),
                        !.pc = "for_next"])
    /\ steps' = steps + 1
    /\ UNCHANGED <<cur, roll, next_states, pc, ret>>

(* Lines 97-102: the next outcome of dice_rolls(), its expansion, and the  *)
(* loss when the expansion is empty; line 107 when the outcomes are used   *)
(* up.                                                                     *)
ForRoll ==
    /\ pc = "search" /\ steps < MaxSteps
    /\ Top.pc = "for_roll"
    /\ IF Top.roll_idx = Len(DiceRolls)
       THEN /\ stack' = SetTop([Top EXCEPT !.pc = "return"])
            /\ heap' = heap
       ELSE LET e == next_states_of(heap, Top.state, DiceRolls[Top.roll_idx + 1])
            IN  /\ heap' = e.heap
                /\ stack' = SetTop([Top EXCEPT
                        !.roll_idx = @ + 1,
                        !.next_states = e.result,
                        !.next_idx = 0,
                        !.base = Len(heap),
                        !.result = IF e.result = <<>> THEN add(@, AllGamesResult(0, 1)) ELSE @,
                        !.pc = "for_next"])
    /\ steps' = steps + 1
    /\ UNCHANGED <<cur, roll, next_states, pc, ret>>

(* Lines 104-105: the call on the next entry of next_states; when they are *)
(* used up the loop over the outcomes goes on and the list is dropped.     *)
ForNext ==
    /\ pc = "search" /\ steps < MaxSteps
    /\ Top.pc = "for_next"
    /\ IF Top.next_idx = Len(Top.next_states)
       THEN /\ stack' = SetTop([Top EXCEPT !.pc = "for_roll", !.next_states = <<>>, !.next_idx = 0])
            /\ heap' = SubSeq(heap, 1, Top.base)
       ELSE /\ stack' = Append(SetTop([Top EXCEPT !.next_idx = @ + 1]),
                               Frame(Top.next_states[Top.next_idx + 1], Len(heap)))
            /\ heap' = heap
    /\ steps' = steps + 1
    /\ UNCHANGED <<cur, roll, next_states, pc, ret>>

(* Lines 93 and 107, and the result += of line 105 in the caller. *)
Return ==
    /\ pc = "search" /\ steps < MaxSteps
    /\ Top.pc = "return"
    /\ IF Len(stack) = 1
       THEN /\ ret' = Top.result
            /\ pc' = "done"
            /\ stack' = <<>>
       ELSE /\ stack' = [SubSeq(stack, 1, Len(stack) - 1) EXCEPT
                            ![Len(stack) - 1].result = add(@, Top.result)]
            /\ UNCHANGED <<ret, pc>>
    /\ steps' = steps + 1
    /\ UNCHANGED <<heap, cur, roll, next_states>>

Next ==
    \/ \E r \in Totals : Roll(r)
    \/ \E j \in 1..Len(next_states) : Choose(j)
    \/ Search
    \/ IsWon
    \/ ForRoll
    \/ ForNext
    \/ Return

Spec == Init /\ [][Next]_vars

(***************************************************************************)
(* The expansions a state shows: the one of the play-through (cur, roll,   *)
(* next_states, while pc = "choose") and the one of every frame of the     *)
(* search that is in its loop over next_states.                            *)
(***************************************************************************)
Expansions ==
    (IF pc = "choose"
     THEN {[state |-> cur, roll |-> roll, next_states |-> next_states]}
     ELSE {})
    \cup {[state |-> stack[i].state, roll |-> DiceRolls[stack[i].roll_idx],
           next_states |-> stack[i].next_states] :
            i \in {n \in 1..Len(stack) : stack[n].pc = "for_next"}}

(* The sum of the values of the flags set in t and not in s. *)
RECURSIVE NewFlagSum(_, _, _)
NewFlagSum(s, t, v) ==
    IF v > NumTiles THEN 0
    ELSE (IF t.front_row[v] /\ ~s.front_row[v] THEN v ELSE 0)
       + (IF t.back_row[v] /\ ~s.back_row[v] THEN v ELSE 0)
       + NewFlagSum(s, t, v + 1)

(* C1: every successor get_next_states returns for a roll r is a legal     *)
(* expansion: the values of the flags it sets (front and back of tile v    *)
(* each counting v) sum to r exactly.                                      *)
C1_SuccessorsSumToRoll ==
    \A e \in Expansions : \A j \in 1..Len(e.next_states) :
        NewFlagSum(heap[e.state], heap[e.next_states[j]], 1) = e.roll

(* The flip transitions tile v has left on board s. *)
FlipsLeft(s, v) == IF ~s.front_row[v] THEN 2 ELSE IF ~s.back_row[v] THEN 1 ELSE 0

(* r is a sum of tile values from tile v on, each tile used at most as     *)
(* often as it has flip transitions left.                                  *)
RECURSIVE Decomposable(_, _, _)
Decomposable(s, r, v) ==
    IF r = 0 THEN TRUE
    ELSE IF v > NumTiles THEN FALSE
    ELSE \E m \in 0..FlipsLeft(s, v) : m * v <= r /\ Decomposable(s, r - m * v, v + 1)

(* C2: a roll that is not a sum of tile values within the flip transitions *)
(* the tiles have left has an empty expansion.                             *)
C2_UndecomposableIsEmpty ==
    \A e \in Expansions :
        ~Decomposable(heap[e.state], e.roll, 1) => e.next_states = <<>>

FrontBeforeBack(b) == \A v \in Tiles : b.back_row[v] => b.front_row[v]

(* C3: in every board reached from the all-false board, a back flag is set *)
(* only if the front flag of the same tile is set.                         *)
C3_BackOnlyIfFront ==
    \A i \in 1..Len(heap) : FrontBeforeBack(heap[i])

(* C3 witness: an expansion has returned a successor with a back flag set. *)
C3_Witness ==
    /\ pc = "choose"
    /\ \E j \in 1..Len(next_states) : \E v \in Tiles :
          heap[next_states[j]].back_row[v] /\ ~heap[cur].back_row[v]

Superset(s, t) ==
    \A v \in Tiles : (s.front_row[v] => t.front_row[v]) /\ (s.back_row[v] => t.back_row[v])

(* C4: flips are monotonic: every successor has every flag of its parent.  *)
C4_FlagsNeverCleared ==
    \A e \in Expansions : \A j \in 1..Len(e.next_states) :
        Superset(heap[e.state], heap[e.next_states[j]])

(* C4 witness: a board with flags set on several tiles has been expanded.  *)
C4_Witness ==
    /\ pc = "choose"
    /\ next_states # <<>>
    /\ SetFlags(heap[cur]) >= 3
    /\ \E v \in Tiles : heap[cur].front_row[v] /\ ~heap[cur].back_row[v]

(* C5: every play-through ends after at most 24 expansions: every         *)
(* successor returned for a roll has strictly more set flags than its      *)
(* parent, so every nested call of the search is on a board with more set  *)
(* flags than its caller's, and the calls nested below a board are at most *)
(* as many as its unset flags, at most 2 * 12.                             *)
C5_SuccessorsGainFlags ==
    /\ \A e \in Expansions : \A j \in 1..Len(e.next_states) :
          SetFlags(heap[e.next_states[j]]) > SetFlags(heap[e.state])
    /\ \A i \in 1..(Len(stack) - 1) :
          SetFlags(heap[stack[i + 1].state]) > SetFlags(heap[stack[i].state])
    /\ pc = "search" =>
          /\ Len(stack) - 1 <= UnsetFlags(heap[cur])
          /\ Len(stack) - 1 <= 2 * NumTiles

(* C5 witness: the search is as many calls below cur as cur had unset      *)
(* flags, two or more, and the board of the innermost call is won.         *)
C5_Witness ==
    /\ pc = "search"
    /\ Len(stack) >= 3
    /\ Len(stack) - 1 = UnsetFlags(heap[cur])
    /\ is_won(heap[Top.state])

(* C6: a call of find_all_games on a won board returns (1, 0) without      *)
(* rolling or expanding; on a board with a flag unset is_won is false and  *)
(* the call returns only after all 36 outcomes.                            *)
C6_WonReturnsOneWin ==
    /\ \A i \in 1..Len(stack) :
          LET f == stack[i]
              b == heap[f.state]
          IN  IF UnsetFlags(b) = 0
              THEN /\ f.pc \in {"is_won", "return"}
                   /\ f.roll_idx = 0
                   /\ f.pc = "return" => f.result = AllGamesResult(1, 0)
              ELSE /\ ~is_won(b)
                   /\ f.pc = "return" => f.roll_idx = NumSides * NumSides
    /\ (pc = "done" /\ UnsetFlags(heap[cur]) = 0) => ret = AllGamesResult(1, 0)

(* C6 witness: a nested call on a won board is about to return (1, 0) to a *)
(* caller that is in its loops.                                            *)
C6_Witness ==
    /\ pc = "search"
    /\ Len(stack) >= 2
    /\ Top.pc = "return"
    /\ UnsetFlags(heap[Top.state]) = 0
    /\ Top.result = AllGamesResult(1, 0)
    /\ stack[Len(stack) - 1].roll_idx >= 1

(* The boards state.get_next_states(roll) returns for board b, in order. *)
Successors(b, r) ==
    LET e == get_next_states(<<b>>, 1, r)
    IN  [i \in 1..Len(e.result) |-> e.heap[e.result[i]]]

(***************************************************************************)
(* The complete play-through paths from board b: sequences of steps        *)
(* <<k, j>> (k the dice outcome among the 36, j the index of the entry     *)
(* chosen in the expansion result) that end at a board with all flags set, *)
(* or with a step <<k, 0>> at an outcome whose expansion is empty.         *)
(***************************************************************************)
RECURSIVE Paths(_)
Paths(b) ==
    IF UnsetFlags(b) = 0 THEN {<<>>}
    ELSE UNION {
        LET S == Successors(b, (((k - 1) \div 6) + 1) + (((k - 1) % 6) + 1))
        IN  IF S = <<>>
            THEN {<< <<k, 0>> >>}
            ELSE UNION {{<< <<k, j>> >> \o p : p \in Paths(S[j])} : j \in 1..Len(S)}
        : k \in 1..36}

EndsWon(p) == p = <<>> \/ p[Len(p)][2] # 0

WonFrom(b) == Cardinality({p \in Paths(b) : EndsWon(p)})

LostFrom(b) == Cardinality({p \in Paths(b) : ~EndsWon(p)})

(* C7: the pair a call of find_all_games returns counts the complete       *)
(* play-through paths from its board: num_won those that end at a won      *)
(* board, num_lost those that end at an empty expansion, each path once.   *)
C7_ResultCountsPaths ==
    /\ \A i \in 1..Len(stack) :
          stack[i].pc = "return" =>
              /\ stack[i].result.num_won = WonFrom(heap[stack[i].state])
              /\ stack[i].result.num_lost = LostFrom(heap[stack[i].state])
    /\ pc = "done" =>
          /\ ret.num_won = WonFrom(heap[cur])
          /\ ret.num_lost = LostFrom(heap[cur])
          /\ ret.num_won + ret.num_lost = Cardinality(Paths(heap[cur]))

(* C7 witness: a search over several plies has returned, with wins and     *)
(* losses.                                                                 *)
C7_Witness ==
    /\ pc = "done"
    /\ UnsetFlags(heap[cur]) >= 2
    /\ ret.num_won >= 2
    /\ ret.num_lost >= 1

RECURSIVE SumWon(_, _)
SumWon(S, j) == IF j = 0 THEN 0 ELSE WonFrom(S[j]) + SumWon(S, j - 1)

RECURSIVE SumLost(_, _)
SumLost(S, j) == IF j = 0 THEN 0 ELSE LostFrom(S[j]) + SumLost(S, j - 1)

(* The times total t comes up among the ordered pairs of faces. *)
Multiplicity(t) == 6 - (IF t >= 7 THEN t - 7 ELSE 7 - t)

RECURSIVE WeightedWon(_, _)
WeightedWon(b, t) ==
    IF t > 12 THEN 0
    ELSE Multiplicity(t) * SumWon(Successors(b, t), Len(Successors(b, t))) + WeightedWon(b, t + 1)

RECURSIVE WeightedLost(_, _)
WeightedLost(b, t) ==
    IF t > 12 THEN 0
    ELSE Multiplicity(t) * (IF Successors(b, t) = <<>> THEN 1
                             ELSE SumLost(Successors(b, t), Len(Successors(b, t))))
         + WeightedLost(b, t + 1)

(* C8: at a board that is not won the search makes exactly 36 expansions,  *)
(* one per ordered pair of faces: total t is expanded 6 - |t - 7| times,   *)
(* and the counts of its successors (or its loss) enter the result that    *)
(* many times.                                                             *)
C8_ThirtySixOutcomes ==
    \A i \in 1..Len(stack) :
        LET f == stack[i]
            b == heap[f.state]
        IN  (f.pc = "return" /\ UnsetFlags(b) > 0) =>
               /\ f.roll_idx = 36
               /\ \A a \in 1..6 : \A c \in 1..6 : DiceRolls[(a - 1) * 6 + c] = a + c
               /\ \A t \in 2..12 :
                     Cardinality({k \in 1..f.roll_idx : DiceRolls[k] = t}) = Multiplicity(t)
               /\ f.result.num_won = WeightedWon(b, 2)
               /\ f.result.num_lost = WeightedLost(b, 2)

(* C8 witness: a call on a board that is not won returns after its 36      *)
(* expansions, with a total that came up more than once leading to wins.   *)
C8_Witness ==
    /\ pc = "search"
    /\ Top.pc = "return"
    /\ UnsetFlags(heap[Top.state]) > 0
    /\ Top.roll_idx = 36
    /\ Top.result.num_won >= 2
    /\ Top.result.num_lost >= 1

(* The objects of every list get_next_states returned are new (made after *)
(* the receiver, so neither the receiver nor the default argument) and     *)
(* pairwise different.                                                     *)
OwnRows ==
    \A e \in Expansions :
        /\ \A j \in 1..Len(e.next_states) : e.next_states[j] > e.state
        /\ Cardinality({e.next_states[j] : j \in 1..Len(e.next_states)}) = Len(e.next_states)

(* C9: get_next_states has no side effects: no step writes to an object    *)
(* that exists before it (the receiver, the boards of the callers, the     *)
(* entries of the lists they hold; when the play-through moves to a        *)
(* successor the objects left behind leave the heap), every object         *)
(* returned is a new one of its own, and the default argument of           *)
(* find_all_games stays all-false.                                         *)
C9_NoSideEffects ==
    [][/\ heap'[DefaultState] = GameState
       /\ pc # "choose" =>
             \A i \in 1..(IF Len(heap) <= Len(heap') THEN Len(heap) ELSE Len(heap')) :
                 heap'[i] = heap[i]
       /\ OwnRows']_vars

(* C9 witness: the default argument has been expanded into several         *)
(* successors.                                                             *)
C9_Witness ==
    /\ pc = "choose"
    /\ cur = DefaultState
    /\ Len(next_states) >= 2
    /\ heap[cur] = GameState

(* Tiles 1..11 with both flags set, tile 12 with its front flag only. *)
Board10 ==
    [front_row |-> [v \in Tiles |-> TRUE], back_row |-> [v \in Tiles |-> v # 12]]

(* C10: on the board with tiles 1..11 fully flipped and tile 12 front-     *)
(* flipped, the roll 12 has exactly one successor, the won board with the  *)
(* back of tile 12 set, on which find_all_games returns (1, 0); every      *)
(* other roll has none.                                                    *)
C10_LastTile ==
    /\ \A e \in Expansions :
          heap[e.state] = Board10 =>
              IF e.roll = 12
              THEN /\ Len(e.next_states) = 1
                   /\ heap[e.next_states[1]].back_row[12]
                   /\ UnsetFlags(heap[e.next_states[1]]) = 0
              ELSE e.next_states = <<>>
    /\ \A i \in 1..(Len(stack) - 1) :
          (heap[stack[i].state] = Board10 /\ stack[i + 1].pc = "return") =>
              stack[i + 1].result = AllGamesResult(1, 0)

(* C10 witness: the search on that board has called find_all_games on the  *)
(* successor of roll 12, which returns.                                    *)
C10_Witness ==
    /\ pc = "search"
    /\ Len(stack) >= 2
    /\ heap[stack[Len(stack) - 1].state] = Board10
    /\ DiceRolls[stack[Len(stack) - 1].roll_idx] = 12
    /\ Top.pc = "return"

(***************************************************************************)
(* get_next_states takes any positive roll, not only the totals of two     *)
(* dice: the play-throughs of SpecAnyRoll roll every total 1..MaxRoll.     *)
(***************************************************************************)
MaxRoll == 13

NextAnyRoll ==
    \/ \E r \in 1..MaxRoll : Roll(r)
    \/ \E j \in 1..Len(next_states) : Choose(j)

SpecAnyRoll == Init /\ [][NextAnyRoll]_vars

(* The expansion of the all-false default argument for roll r is on show. *)
InitialExpanded(r) ==
    /\ pc = "choose"
    /\ cur = DefaultState
    /\ heap[cur] = GameState
    /\ roll = r

(* C11 as stated: the expansion of the all-false board for 13 is empty. *)
C11_ThirteenIsEmpty ==
    InitialExpanded(13) => next_states = <<>>

(* C11, amended: the expansion of the all-false board for 13 is not empty; *)
(* among its entries is the board with the fronts of tiles 1 and 12 set    *)
(* and nothing else.                                                       *)
C11_ThirteenIsNotEmpty ==
    InitialExpanded(13) =>
        /\ next_states # <<>>
        /\ \E j \in 1..Len(next_states) :
              heap[next_states[j]] =
                  [front_row |-> [v \in Tiles |-> v \in {1, 12}],
                   back_row |-> [v \in Tiles |-> FALSE]]

(* C11 witness: the all-false board has been expanded for 13. *)
C11_Witness == InitialExpanded(13)

(* C12: the expansion of the all-false board for 1 has exactly one entry,  *)
(* with the front of tile 1 set and the other 23 flags unset.              *)
C12_OneIsTileOne ==
    InitialExpanded(1) =>
        /\ Len(next_states) = 1
        /\ heap[next_states[1]] =
              [front_row |-> [v \in Tiles |-> v = 1],
               back_row |-> [v \in Tiles |-> FALSE]]

(* C12 witness: the all-false board has been expanded for 1. *)
C12_Witness == InitialExpanded(1) /\ next_states # <<>>

(* C13: for each outcome of a call on a board that is not won, either the *)
(* expansion is empty, one loss is added and no call is made, or no loss   *)
(* is added and find_all_games is called once on each entry of the         *)
(* expansion, in order, each result being added to the caller's result.    *)
C13_LossOrCalls ==
    [][pc = "search" /\ pc' = "search" =>
        LET f == Top
            n == Len(stack)
        IN  /\ (f.pc = "for_roll" /\ stack'[n].pc = "for_next") =>
                  LET g == stack'[n]
                  IN  /\ Len(stack') = n
                      /\ g.next_idx = 0
                      /\ g.result = IF g.next_states = <<>>
                                    THEN [num_won |-> f.result.num_won,
                                          num_lost |-> f.result.num_lost + 1]
                                    ELSE f.result
            /\ Len(stack') = n + 1 =>
                  /\ f.pc = "for_next"
                  /\ f.next_states # <<>>
                  /\ stack'[n].next_idx = f.next_idx + 1
                  /\ stack'[n].result = f.result
                  /\ stack'[n + 1].state = f.next_states[f.next_idx + 1]
            /\ (f.pc = "for_next" /\ Len(stack') = n /\ stack'[n].pc = "for_roll") =>
                  /\ f.next_idx = Len(f.next_states)
                  /\ stack'[n].result = f.result
            /\ Len(stack') = n - 1 =>
                  /\ f.pc = "return"
                  /\ stack'[n - 1].result =
                        [num_won |-> stack[n - 1].result.num_won + f.result.num_won,
                         num_lost |-> stack[n - 1].result.num_lost + f.result.num_lost]
                  /\ stack'[n - 1].next_idx = stack[n - 1].next_idx]_vars

(* C13 witness: a call has had a loss and has had a win returned by the    *)
(* last entry of an expansion.                                             *)
C13_Witness ==
    /\ pc = "search"
    /\ Top.pc = "for_next"
    /\ Top.next_states # <<>>
    /\ Top.next_idx = Len(Top.next_states)
    /\ Top.result.num_lost >= 1
    /\ Top.result.num_won >= 1

(* Tile v can be selected on board s: it is not fully consumed. *)
Selectable(s, v) == ~(s.front_row[v] /\ s.back_row[v])

(* The multisets of selectable tile values, from value v on, that sum to r. *)
RECURSIVE NumMultisets(_, _, _)
NumMultisets(s, r, v) ==
    IF r = 0 THEN 1
    ELSE IF v > NumTiles \/ v > r THEN 0
    ELSE (IF Selectable(s, v) THEN NumMultisets(s, r - v, v) ELSE 0)
         + NumMultisets(s, r, v + 1)

(* C14: the result of an expansion has exactly one entry per multiset of   *)
(* selected tile values that sums to the roll: the same tiles selected in  *)
(* another order give no second entry.                                     *)
C14_OneEntryPerMultiset ==
    \A e \in Expansions :
        Len(e.next_states) = NumMultisets(heap[e.state], e.roll, 1)

(* C15: when tile v (1..6) is untouched and the roll is 2v, some successor *)
(* has both flags of tile v set and every other tile as in the parent.     *)
C15_FrontThenBack ==
    \A e \in Expansions : \A v \in 1..6 :
        (e.roll = 2 * v /\ ~heap[e.state].front_row[v] /\ ~heap[e.state].back_row[v]) =>
            \E j \in 1..Len(e.next_states) :
                heap[e.next_states[j]] =
                    [heap[e.state] EXCEPT !.front_row[v] = TRUE, !.back_row[v] = TRUE]

(* The selection paths of an expansion: the sequences of selectable tile   *)
(* values, in any order and with repetition, that sum to r.                *)
RECURSIVE NumSelections(_, _)
RECURSIVE NumSelectionsFrom(_, _, _)
NumSelections(s, r) == IF r = 0 THEN 1 ELSE NumSelectionsFrom(s, r, 1)

NumSelectionsFrom(s, r, v) ==
    IF v > NumTiles \/ v > r THEN 0
    ELSE (IF Selectable(s, v) THEN NumSelections(s, r - v) ELSE 0)
         + NumSelectionsFrom(s, r, v + 1)

(* C16: the result of an expansion is not deduplicated: it has one entry   *)
(* per selection path, also when two paths end in the same flip pattern,   *)
(* and the search calls find_all_games on each entry by its index.         *)
C16_OneEntryPerPath ==
    /\ \A e \in Expansions :
          Len(e.next_states) = NumSelections(heap[e.state], e.roll)
    /\ \A i \in 1..(Len(stack) - 1) :
          /\ stack[i].pc = "for_next"
          /\ stack[i].next_idx \in 1..Len(stack[i].next_states)
          /\ stack[i + 1].state = stack[i].next_states[stack[i].next_idx]

(* C16 witness: the search is in a call on an entry that has the same      *)
(* flags as an earlier entry of the same list, which is another object.    *)
C16_Witness ==
    /\ pc = "search"
    /\ Len(stack) >= 2
    /\ LET f == stack[Len(stack) - 1]
       IN  \E j \in 1..(f.next_idx - 1) :
              /\ heap[f.next_states[j]] = heap[f.next_states[f.next_idx]]
              /\ f.next_states[j] # f.next_states[f.next_idx]

(* The tiles of a board that lack the front or the back flag. *)
OpenTiles(b) == Cardinality({v \in Tiles : Selectable(b, v)})

(* C17 as stated: every successor has strictly fewer tiles that are not    *)
(* fully consumed than its parent.                                         *)
C17_FewerOpenTiles ==
    \A e \in Expansions : \A j \in 1..Len(e.next_states) :
        OpenTiles(heap[e.next_states[j]]) < OpenTiles(heap[e.state])

(* C17, amended: every recursive call is on a successor with strictly      *)
(* fewer unset flags than its parent, and never more tiles that are not    *)
(* fully consumed.                                                         *)
C17_FewerUnsetFlags ==
    /\ \A e \in Expansions : \A j \in 1..Len(e.next_states) :
          /\ UnsetFlags(heap[e.next_states[j]]) < UnsetFlags(heap[e.state])
          /\ OpenTiles(heap[e.next_states[j]]) <= OpenTiles(heap[e.state])
    /\ \A i \in 1..(Len(stack) - 1) :
          /\ UnsetFlags(heap[stack[i + 1].state]) < UnsetFlags(heap[stack[i].state])
          /\ OpenTiles(heap[stack[i + 1].state]) <= OpenTiles(heap[stack[i].state])

(* C17 witness: a recursive call on a successor with as many tiles not     *)
(* fully consumed as its parent, and fewer unset flags.                    *)
C17_Witness ==
    /\ pc = "search"
    /\ Len(stack) >= 2
    /\ OpenTiles(heap[Top.state]) = OpenTiles(heap[stack[Len(stack) - 1].state])
    /\ UnsetFlags(heap[Top.state]) < UnsetFlags(heap[stack[Len(stack) - 1].state])

(***************************************************************************)
(* find_all_games as the function of the board that it is: the result of   *)
(* the call on b.  for_roll is the loop of lines 97-105 from outcome k on  *)
(* and for_next the loop of lines 104-105 over entries lo..hi; acc is      *)
(* result, threaded through the outcomes and the entries from left to      *)
(* right as the code does.  The range of for_next is halved, and acc is    *)
(* looked at before a loop goes on, only to keep the evaluation shallow:   *)
(* its counts are never negative.                                          *)
(* A worker (Wk, wk, Wj, wj) does the part of the loops with k % Wk = wk   *)
(* and j % Wj = wj, and counts the loss of an outcome it owns when         *)
(* wj = 0; the worker (1, 0, 1, 0) does all of it, as the code does.  The  *)
(* calls a worker makes are whole calls.                                   *)
(***************************************************************************)
RECURSIVE find_all_games(_)
RECURSIVE for_roll(_, _, _, _, _, _, _)
RECURSIVE for_next(_, _, _, _, _, _)
find_all_games(b) ==
    IF is_won(b) THEN AllGamesResult(1, 0)
    ELSE for_roll(b, 1, 0, 1, 0, 1, AllGamesResult(0, 0))

for_roll(b, Wk, wk, Wj, wj, k, acc) ==
    IF acc.num_won < 0 \/ k > Len(DiceRolls) THEN acc
    ELSE IF k % Wk # wk THEN for_roll(b, Wk, wk, Wj, wj, k + 1, acc)
    ELSE LET S == Successors(b, DiceRolls[k])
         IN  for_roll(b, Wk, wk, Wj, wj, k + 1,
                      for_next(S, Wj, wj, 1, Len(S),
                               IF S = <<>> /\ wj = 0 THEN add(acc, AllGamesResult(0, 1))
                               ELSE acc))

for_next(S, Wj, wj, lo, hi, acc) ==
    IF acc.num_won < 0 \/ lo > hi THEN acc
    ELSE IF lo = hi
         THEN IF lo % Wj # wj THEN acc ELSE add(acc, find_all_games(S[lo]))
         ELSE LET mid == (lo + hi) \div 2
              IN  for_next(S, Wj, wj, mid + 1, hi, for_next(S, Wj, wj, lo, mid, acc))

(* The most parts the outcomes, or the entries, are dealt into. *)
MaxWorkers == 2

(* The results of the Wk * Wj workers n..Wk * Wj - 1, each summed from     *)
(* (0, 0).                                                                 *)
RECURSIVE Workers(_, _, _, _)
Workers(b, Wk, Wj, n) ==
    IF n >= Wk * Wj THEN <<>>
    ELSE <<for_roll(b, Wk, n % Wk, Wj, n \div Wk, 1, AllGamesResult(0, 0))>>
             \o Workers(b, Wk, Wj, n + 1)

(* The results ws[1..n] added up from the last down and from the first up. *)
RECURSIVE MergeDown(_, _)
MergeDown(ws, n) ==
    IF n = 0 THEN AllGamesResult(0, 0) ELSE add(ws[n], MergeDown(ws, n - 1))

RECURSIVE MergeUp(_, _)
MergeUp(ws, n) ==
    IF n = 0 THEN AllGamesResult(0, 0) ELSE add(MergeUp(ws, n - 1), ws[n])

(* Both merges of ws are result. *)
Merged(ws, result) ==
    /\ MergeDown(ws, Len(ws)) = result
    /\ MergeUp(ws, Len(ws)) = result

TileOneOpen(b) == ~b.front_row[1] \/ ~b.back_row[1]

(* C19: on a board whose tile 1 is not fully consumed every roll 2..12 has *)
(* a successor, and the search adds a loss only in a call on a board whose *)
(* tile 1 has both flags.                                                  *)
C19_TileOneNeverLoses ==
    [][/\ \A e \in Expansions' :
             TileOneOpen(heap'[e.state]) => e.next_states # <<>>
       /\ (/\ pc = "search" /\ pc' = "search"
           /\ Len(stack') = Len(stack)
           /\ Top.pc = "for_roll"
           /\ stack'[Len(stack)].result # Top.result)
          => ~TileOneOpen(heap[Top.state])]_vars

(* C19 witness: only tile 1 lacks a flag, 12 was rolled and there is a     *)
(* successor.                                                              *)
C19_Witness ==
    /\ pc = "choose"
    /\ roll = 12
    /\ TileOneOpen(heap[cur])
    /\ UnsetFlags(heap[cur]) = 1
    /\ next_states # <<>>

(* C20: the won board and a dead-end roll are reached from the all-false   *)
(* board, and they are counted: every call of the search that returns,     *)
(* on a board a play-through from the all-false board has reached, returns *)
(* at least one win, and at least one loss exactly when a tile other than  *)
(* tile 1 lacks a flag; results are only added to on the way up.           *)
C20_WinsAndLossesCounted ==
    /\ \A i \in 1..Len(stack) :
          stack[i].pc = "return" =>
              /\ stack[i].result.num_won >= 1
              /\ stack[i].result.num_lost >= 1
                    <=> \E v \in 2..NumTiles : Selectable(heap[stack[i].state], v)
    /\ pc = "done" =>
          /\ ret.num_won >= 1
          /\ ret.num_lost >= 1 <=> \E v \in 2..NumTiles : Selectable(heap[cur], v)

(* C20 witness: a call on a board reached from the all-false board has     *)
(* returned with a win and a loss below it.                                *)
C20_Witness ==
    /\ pc = "done"
    /\ cur # DefaultState
    /\ heap[DefaultState] = GameState
    /\ ret.num_won >= 1
    /\ ret.num_lost >= 1

====
